---------------------------- MODULE Spec2Model ----------------------------
(***************************************************************************)
(* Model of the file transfer daemon (server.py), the transfer client      *)
(* (client.py) and the sync poller (sync_pictures.py).                     *)
(*                                                                         *)
(* Strings are sequences of code points, byte strings are sequences of     *)
(* integers 0..255.  A Python value that may be None is a sequence of      *)
(* length 0 (None) or 1 (the value).  Timestamps are counted in clock      *)
(* ticks; the text form '%Y-%m-%d %H:%M:%S' of a timestamp is represented  *)
(* by its whole number of seconds.                                         *)
(***************************************************************************)
EXTENDS Integers, Sequences, FiniteSets, TLC

(***************************************************************************)
(* Bounds of the model                                                     *)
(***************************************************************************)
\* clock ticks per second: datetime.now() is finer than the stored text
TicksPerSecond == 2
\* how many times the clock advances in one behaviour
MaxTicks == 2
\* how many connections of other peers may wait in the listen backlog at once
MaxOthers == 1

(***************************************************************************)
(* Program constants                                                       *)
(***************************************************************************)
MAX_NO_SEND_HOURS == 24
ChunkSize == 4096

None == << >>
Some(v) == << v >>

Min(a, b) == IF a <= b THEN a ELSE b
Take(b, k) == SubSeq(b, 1, k)
Drop(b, k) == SubSeq(b, k + 1, Len(b))

(***************************************************************************)
(* Codec: int.to_bytes / int.from_bytes (big endian), str.encode('utf-8'), *)
(* bytes.decode('utf-8'), len(str), os.path.basename                       *)
(***************************************************************************)
\* values at or above Huge are all represented by Huge: no file or stream of
\* the model is that long, so a length decoded as Huge is never satisfied
Huge == 256 * 256 * 64

Pow256(k) == IF k = 0 THEN 1 ELSE IF k = 1 THEN 256 ELSE 256 * 256

\* v.to_bytes(w, byteorder='big') for 0 <= v < 256^3
ToBytes(v, w) == [i \in 1..w |-> IF w - i > 2 THEN 0 ELSE (v \div Pow256(w - i)) % 256]

RECURSIVE FromBytesAcc(_, _)
FromBytesAcc(b, acc) ==
    IF b = << >> THEN acc
    ELSE FromBytesAcc(Tail(b), IF acc >= Huge THEN Huge ELSE acc * 256 + Head(b))

\* int.from_bytes(b, byteorder='big'); int.from_bytes(b'') is 0
FromBytes(b) == FromBytesAcc(b, 0)

\* UTF-8 of one code point below 2048
Utf8(c) == IF c < 128 THEN << c >> ELSE << 192 + (c \div 64), 128 + (c % 64) >>

RECURSIVE Encode(_)
Encode(s) == IF s = << >> THEN << >> ELSE Utf8(Head(s)) \o Encode(Tail(s))

\* bytes.decode('utf-8'): ok is FALSE where Python raises UnicodeDecodeError
RECURSIVE Decode(_)
Decode(b) ==
    IF b = << >> THEN [ok |-> TRUE, str |-> << >>]
    ELSE IF b[1] < 128
         THEN LET r == Decode(Tail(b))
              IN  [ok |-> r.ok, str |-> << b[1] >> \o r.str]
    ELSE IF b[1] >= 194 /\ b[1] < 224 /\ Len(b) >= 2 /\ b[2] >= 128 /\ b[2] < 192
         THEN LET r == Decode(Drop(b, 2))
              IN  [ok |-> r.ok, str |-> << (b[1] - 192) * 64 + (b[2] - 128) >> \o r.str]
    ELSE [ok |-> FALSE, str |-> << >>]

\* len(s) of a str: the number of code points
StrLen(s) == Len(s)

Slash == 47
Backslash == 92
Colon == 58
\* both hosts run Windows (the paths carry drive letters): os.path is ntpath
Seps == {Slash, Backslash}

\* os.path.splitdrive: a leading "X:" is the drive
DriveLen(p) == IF Len(p) >= 2 /\ p[2] = Colon THEN 2 ELSE 0

RECURSIVE AfterLastSep(_)
AfterLastSep(p) ==
    IF p = << >> THEN << >>
    ELSE IF \E i \in 1..Len(p) : p[i] \in Seps
         THEN AfterLastSep(Tail(p))
         ELSE p

\* os.path.basename: what follows the drive and the last separator
Basename(p) == AfterLastSep(Drop(p, DriveLen(p)))

(***************************************************************************)
(* The daemon's filesystem and the paths a client asks for                 *)
(***************************************************************************)
PathA == << 47, 97 >>          \* "/a"   regular file, two bytes
PathAB == << 47, 97, 98 >>     \* "/ab"  does not exist; "/a" is a prefix
PathB == << 47, 98 >>          \* "/b"   regular file, empty
PathC == << 47, 99 >>          \* "/c"   regular file without read permission
PathE == << 47, 233 >>         \* "/e'"  regular file, name of two UTF-8 bytes
PathDE == << 47, 100, 233 >>   \* "/de'" does not exist
PathRoot == << 47 >>           \* "/"    a directory

Missing == [kind |-> "missing", readable |-> FALSE, data |-> << >>]

ServerFiles ==
    [p \in {PathA, PathB, PathC, PathE, PathRoot} |->
        IF p = PathA THEN [kind |-> "file", readable |-> TRUE, data |-> << 11, 12 >>]
        ELSE IF p = PathB THEN [kind |-> "file", readable |-> TRUE, data |-> << >>]
        ELSE IF p = PathC THEN [kind |-> "file", readable |-> FALSE, data |-> << 13 >>]
        ELSE IF p = PathE THEN [kind |-> "file", readable |-> TRUE, data |-> << 14 >>]
        ELSE [kind |-> "dir", readable |-> TRUE, data |-> << >>]]

RequestPaths == {PathA, PathAB, PathB, PathC, PathE, PathDE, PathRoot}

VARIABLES
    \* ---- environment
    now,              \* the clock, in ticks
    ticks,            \* how often the clock has advanced
    srvFS,            \* the daemon's filesystem: path -> file
    dest,             \* the client's save_dir: file name -> content
    linkUp,           \* FALSE once the connection was lost
    c2s,              \* bytes sent by the client, not yet read by the daemon
    s2c,              \* bytes sent by the daemon, not yet read by the client
    sentLog,          \* every byte the daemon wrote on the connection
    reqLog,           \* every byte the client wrote on the connection
    \* ---- client.py
    image_name,       \* request_image's image_name
    cpc,              \* the client's position
    cSock,            \* "new" | "connected" | "closed"
    hdr,              \* what s.recv(4) returned (client.py:8)
    name_bytes,       \* what s.recv(file_name_length) returned (client.py:12)
    size_bytes,       \* what s.recv(8) returned (client.py:15)
    file_name_length,
    file_name,
    file_size,
    received_data,
    outcome,          \* which return of receive_image/request_image was taken
    result,           \* request_image's return value, once cpc = "done"
    \* ---- server.py
    spc,              \* the daemon's position
    sConn,            \* "none" | "open" | "closed": the accepted connection
    pending,          \* a connection waits in the listen backlog
    path_length,
    file_path,
    srv_file_name,
    srv_file_size,
    offset,           \* read position of f in send_image
    server_progress,  \* server_progress.json
    conn,             \* whose connection conn is: "none" | "client" | "other"
    backlog,          \* connections of other peers waiting to be accepted
    open_conns,       \* accepted connections that have not been closed
    launcher,         \* how the daemon was started: "server" | "run_server"
    wd_last,          \* check_need_restart's result in this round of the loop
    other_open,       \* the other peer whose connection conn is has not closed
    relaunched,       \* restarted by the watchdog and not yet arrived at accept
    \* ---- sync_pictures.py
    sync_progress,    \* sync_progress.json
    db,               \* the rows of jlyxz.PIC_MATCHTASK
    localFS,          \* the poller's disk: normalised path -> file size
    ppc,              \* the poller's position
    last_created_time,
    last_task_id,     \* run_once's cursor, as loaded
    df,               \* the fetched batch
    row_idx,          \* the row of df being processed
    path_idx,         \* the path column being processed
    has_successful_download,
    row_requests,     \* request_image calls of the current download_for_row
    complete,         \* items one download_for_row has left fully downloaded
    failed,           \* items with a failed request_image since the last fetch
    attempted,        \* items whose paths have all been gone through
    last_success,     \* the time update_download_time recorded last
    \* ---- the watchdog functions applied to given inputs
    wd_daemon,        \* what server.py's check_need_restart returned
    wd_poller,        \* what sync_pictures.py's check_need_restart returned
    wd_update         \* the progress file update_download_time has left

envVars == << now, ticks, srvFS, dest, linkUp, c2s, s2c, sentLog, reqLog >>
clientVars == << image_name, cpc, cSock, hdr, name_bytes, size_bytes,
                 file_name_length, file_name, file_size, received_data,
                 outcome, result >>
clientLocals == << hdr, name_bytes, size_bytes, file_name_length, file_name,
                  file_size, received_data >>
serverLocals == << path_length, file_path, srv_file_name, srv_file_size, offset >>
\* the accept loop's bookkeeping
srvCtl == << conn, backlog, open_conns, launcher, wd_last, other_open, relaunched >>
serverVars == << spc, sConn, pending, path_length, file_path, srv_file_name,
                 srv_file_size, offset, server_progress, srvCtl >>
pollVars == << sync_progress, db, localFS, ppc, last_created_time, last_task_id,
               df, row_idx, path_idx, has_successful_download, row_requests,
               complete, failed, attempted, last_success >>
\* the record of what the poller has done
pollHist == << failed, attempted, last_success >>
wdVars == << wd_daemon, wd_poller, wd_update >>
\* what the transfer system leaves alone
pollerSide == << pollVars, wdVars >>
\* what the poller leaves alone
transferSide == << srvFS, dest, linkUp, c2s, s2c, sentLog, reqLog, clientVars,
                   serverVars, wdVars >>
vars == << envVars, clientVars, serverVars, pollVars, wdVars >>


(***************************************************************************)
(* Sockets                                                                 *)
(***************************************************************************)
\* socket.recv(n): how many bytes one call may return.  It returns what has
\* arrived, at most n bytes and possibly fewer; b'' once the peer is gone and
\* nothing is left to read; otherwise it blocks (no count is possible).
RecvCounts(buf, n, peerGone) ==
    IF n = 0 THEN {0}
    ELSE IF buf # << >> THEN 1..Min(n, Len(buf))
    ELSE IF peerGone THEN {0}
    ELSE {}

\* socket.sendall: TRUE where it returns, FALSE where it raises.  Writing to a
\* connection the peer has closed may still be accepted by the local stack.
SendOutcomes(peerClosed) ==
    IF ~linkUp THEN {FALSE}
    ELSE IF peerClosed THEN {TRUE, FALSE}
    ELSE {TRUE}

ClientPeerGone == ~linkUp \/ sConn = "closed"
\* a peer other than the client connects and sends nothing; it closes at once
\* or stays connected
ServerPeerGone == IF conn = "other" THEN ~other_open ELSE ~linkUp \/ cSock = "closed"
\* what has arrived on conn
ConnIn == IF conn = "client" THEN c2s ELSE << >>

(***************************************************************************)
(* client.py: request_image and receive_image                              *)
(***************************************************************************)
\* the value returned for the not-found sentinel (client.py:11)
SentinelResult == FALSE
\* the value returned from receive_image's except clause (client.py:40)
ErrorResult == FALSE
\* the value returned from request_image's except clause (client.py:59)
ConnectErrorResult == FALSE

\* a return of receive_image, then the end of request_image's with block
CFinish(o, r) ==
    /\ cpc' = "done"
    /\ outcome' = o
    /\ result' = r
    /\ cSock' = "closed"

\* s.connect((server_ip, server_port))
CConnect ==
    /\ cpc = "connect"
    /\ IF spc \notin {"restart", "exited"}
       THEN /\ cpc' = "send_len"
            /\ cSock' = "connected"
            /\ pending' = TRUE
            /\ UNCHANGED << outcome, result >>
       ELSE /\ CFinish("connect_error", ConnectErrorResult)
            /\ UNCHANGED pending
    /\ UNCHANGED << envVars, image_name, clientLocals, spc, sConn, serverLocals,
                    server_progress, srvCtl >>
    /\ UNCHANGED pollerSide

\* s.sendall(len(image_name).to_bytes(4, byteorder='big'))
CSendLen ==
    /\ cpc = "send_len"
    /\ \E ok \in SendOutcomes(sConn = "closed") :
          IF ok
          THEN /\ c2s' = c2s \o ToBytes(StrLen(image_name), 4)
               /\ reqLog' = reqLog \o ToBytes(StrLen(image_name), 4)
               /\ cpc' = "send_path"
               /\ UNCHANGED << cSock, outcome, result >>
          ELSE /\ CFinish("connect_error", ConnectErrorResult)
               /\ UNCHANGED << c2s, reqLog >>
    /\ UNCHANGED << now, ticks, srvFS, dest, linkUp, s2c, sentLog, image_name,
                    clientLocals, serverVars >>
    /\ UNCHANGED pollerSide

\* s.sendall(image_name.encode('utf-8'))
CSendPath ==
    /\ cpc = "send_path"
    /\ \E ok \in SendOutcomes(sConn = "closed") :
          IF ok
          THEN /\ c2s' = c2s \o Encode(image_name)
               /\ reqLog' = reqLog \o Encode(image_name)
               /\ cpc' = "recv_name_len"
               /\ UNCHANGED << cSock, outcome, result >>
          ELSE /\ CFinish("connect_error", ConnectErrorResult)
               /\ UNCHANGED << c2s, reqLog >>
    /\ UNCHANGED << now, ticks, srvFS, dest, linkUp, s2c, sentLog, image_name,
                    clientLocals, serverVars >>
    /\ UNCHANGED pollerSide

\* file_name_length = int.from_bytes(s.recv(4), byteorder='big'); the test of 0
CRecvNameLen ==
    /\ cpc = "recv_name_len"
    /\ \E k \in RecvCounts(s2c, 4, ClientPeerGone) :
          /\ hdr' = Take(s2c, k)
          /\ s2c' = Drop(s2c, k)
          /\ file_name_length' = FromBytes(Take(s2c, k))
          /\ IF FromBytes(Take(s2c, k)) = 0
             THEN CFinish("sentinel", SentinelResult)
             ELSE /\ cpc' = "recv_name"
                  /\ UNCHANGED << cSock, outcome, result >>
    /\ UNCHANGED << now, ticks, srvFS, dest, linkUp, c2s, sentLog, reqLog, image_name,
                    name_bytes, size_bytes, file_name, file_size, received_data,
                    serverVars >>
    /\ UNCHANGED pollerSide

\* file_name = s.recv(file_name_length).decode('utf-8')
CRecvName ==
    /\ cpc = "recv_name"
    /\ \E k \in RecvCounts(s2c, file_name_length, ClientPeerGone) :
          /\ s2c' = Drop(s2c, k)
          /\ name_bytes' = Take(s2c, k)
          /\ IF Decode(Take(s2c, k)).ok
             THEN /\ file_name' = Decode(Take(s2c, k)).str
                  /\ cpc' = "recv_size"
                  /\ UNCHANGED << cSock, outcome, result >>
             ELSE /\ CFinish("error", ErrorResult)
                  /\ UNCHANGED file_name
    /\ UNCHANGED << now, ticks, srvFS, dest, linkUp, c2s, sentLog, reqLog, image_name,
                    hdr, size_bytes, file_name_length, file_size, received_data,
                    serverVars >>
    /\ UNCHANGED pollerSide

\* file_size = int.from_bytes(s.recv(8), byteorder='big'); the test of 0
CRecvSize ==
    /\ cpc = "recv_size"
    /\ \E k \in RecvCounts(s2c, 8, ClientPeerGone) :
          /\ s2c' = Drop(s2c, k)
          /\ size_bytes' = Take(s2c, k)
          /\ file_size' = FromBytes(Take(s2c, k))
          /\ IF FromBytes(Take(s2c, k)) = 0
             THEN CFinish("size0", FALSE)
             ELSE /\ cpc' = "recv_chunk"
                  /\ UNCHANGED << cSock, outcome, result >>
    /\ UNCHANGED << now, ticks, srvFS, dest, linkUp, c2s, sentLog, reqLog, image_name,
                    hdr, name_bytes, file_name_length, file_name, received_data,
                    serverVars >>
    /\ UNCHANGED pollerSide

\* CRecvChunk with the file opened before the loop and each chunk written to
\* it as it arrives
CRecvChunkWriteThrough ==
    /\ cpc = "recv_chunk"
    /\ Len(received_data) < file_size
    /\ \E k \in RecvCounts(s2c, Min(ChunkSize, file_size - Len(received_data)),
                           ClientPeerGone) :
          /\ s2c' = Drop(s2c, k)
          /\ IF k = 0
             THEN /\ CFinish("error", ErrorResult)
                  /\ UNCHANGED << received_data, dest >>
             ELSE /\ received_data' = received_data \o Take(s2c, k)
                  /\ dest' = [n \in DOMAIN dest \cup {file_name} |->
                                 IF n = file_name THEN received_data \o Take(s2c, k)
                                 ELSE dest[n]]
                  /\ cpc' = IF Len(received_data) + k < file_size
                            THEN "recv_chunk" ELSE "save"
                  /\ UNCHANGED << cSock, outcome, result >>
    /\ UNCHANGED << now, ticks, srvFS, linkUp, c2s, sentLog, reqLog, image_name,
                    hdr, name_bytes, size_bytes, file_name_length, file_name,
                    file_size, serverVars >>
    /\ UNCHANGED pollerSide

\* one round of: while len(received_data) < file_size: chunk = s.recv(...)
CRecvChunk ==
    /\ cpc = "recv_chunk"
    /\ Len(received_data) < file_size
    /\ \E k \in RecvCounts(s2c, Min(ChunkSize, file_size - Len(received_data)),
                           ClientPeerGone) :
          /\ s2c' = Drop(s2c, k)
          /\ IF k = 0
             THEN /\ CFinish("error", ErrorResult)
                  /\ UNCHANGED received_data
             ELSE /\ received_data' = received_data \o Take(s2c, k)
                  /\ cpc' = IF Len(received_data) + k < file_size
                            THEN "recv_chunk" ELSE "save"
                  /\ UNCHANGED << cSock, outcome, result >>
    /\ UNCHANGED << now, ticks, srvFS, dest, linkUp, c2s, sentLog, reqLog, image_name,
                    hdr, name_bytes, size_bytes, file_name_length, file_name,
                    file_size, serverVars >>
    /\ UNCHANGED pollerSide

\* open(os.path.join(save_dir, file_name), 'wb') fails for an empty name (the
\* directory itself) and for a name with a separator (no such directory)
CanCreate(name) == name # << >> /\ \A i \in 1..Len(name) : name[i] \notin Seps

\* with open(save_path, 'wb') as f: f.write(received_data); return True
CSave ==
    /\ cpc = "save"
    /\ IF CanCreate(file_name)
       THEN /\ dest' = [n \in DOMAIN dest \cup {file_name} |->
                           IF n = file_name THEN received_data ELSE dest[n]]
            /\ CFinish("saved", TRUE)
       ELSE /\ CFinish("error", ErrorResult)
            /\ UNCHANGED dest
    /\ UNCHANGED << now, ticks, srvFS, linkUp, c2s, s2c, sentLog, reqLog, image_name,
                    clientLocals, serverVars >>
    /\ UNCHANGED pollerSide

(***************************************************************************)
(* server.py: the checkpoint and the watchdog                              *)
(***************************************************************************)
\* datetime.strftime('%Y-%m-%d %H:%M:%S'): the fraction of a second is dropped
StrfTime(t) == t \div TicksPerSecond
\* datetime.strptime(s, '%Y-%m-%d %H:%M:%S')
StrpTime(s) == s * TicksPerSecond

NoFile == [state |-> "absent", last_send_time |-> None]

\* a file that holds no JSON: opened for writing and not, or not fully, written
TornDaemonFile == [state |-> "torn", last_send_time |-> None]

\* load_last_send_time: None without a file, for a file that is no JSON, and
\* for a JSON object without the key
load_last_send_time(f) ==
    IF f.state = "absent" THEN None
    ELSE IF f.state # "json" THEN None
    ELSE f.last_send_time

\* save_last_send_time at time t: the file it leaves
save_last_send_time(t) == [state |-> "json", last_send_time |-> Some(StrfTime(t))]

\* HoursReached with > for >=
HoursExceeded(t, last, limit) == t - last > limit * 3600 * TicksPerSecond

\* hours_since >= limit, with hours_since = (now - last).total_seconds() / 3600
HoursReached(t, last, limit) == t - last >= limit * 3600 * TicksPerSecond

\* check_need_restart() of server.py, called at time t on progress file f
check_need_restart(f, t) ==
    LET last_send_time == load_last_send_time(f)
    IN  IF last_send_time = None THEN FALSE
        ELSE HoursReached(t, StrpTime(last_send_time[1]), MAX_NO_SEND_HOURS)

(***************************************************************************)
(* server.py: start_server and send_image                                  *)
(***************************************************************************)
FileAt(p) == IF p \in DOMAIN srvFS THEN srvFS[p] ELSE Missing

\* check_file_readable: os.path.isfile and os.access(R_OK)
check_file_readable(p) == FileAt(p).kind = "file" /\ FileAt(p).readable

\* the head of the accept loop: check_need_restart(), then sleep and raise
SCheck ==
    /\ spc = "check"
    /\ spc' = IF check_need_restart(server_progress, now) THEN "restart" ELSE "accept"
    /\ wd_last' = IF check_need_restart(server_progress, now) THEN "true" ELSE "false"
    /\ relaunched' = (relaunched /\ check_need_restart(server_progress, now))
    /\ UNCHANGED << envVars, clientVars, sConn, pending, serverLocals, server_progress,
                    conn, backlog, open_conns, launcher, other_open >>
    /\ UNCHANGED pollerSide

\* the exception raised after the sleep leaves start_server.  Under server.py's
\* __main__ the outer loop sleeps and restart_program re-executes the script;
\* under run_server.main the except clause calls sys.exit(1).  Either way the
\* process's sockets, the listening one and its backlog included, are gone.
SRestart ==
    /\ spc = "restart"
    /\ spc' = IF launcher = "server" THEN "check" ELSE "exited"
    /\ pending' = FALSE
    /\ sConn' = "none"
    /\ conn' = "none"
    /\ backlog' = 0
    /\ open_conns' = 0
    /\ wd_last' = "none"
    /\ other_open' = FALSE
    /\ relaunched' = (launcher = "server")
    /\ linkUp' = IF cSock = "connected" THEN FALSE ELSE linkUp
    /\ c2s' = << >>
    /\ s2c' = << >>
    /\ UNCHANGED << now, ticks, srvFS, dest, sentLog, reqLog, clientVars, serverLocals,
                    server_progress, launcher >>
    /\ UNCHANGED pollerSide

\* conn, addr = s.accept(): the client's connection or another peer's
SAccept ==
    /\ spc = "accept"
    /\ \/ /\ pending
          /\ pending' = FALSE
          /\ sConn' = "open"
          /\ conn' = "client"
          /\ UNCHANGED << backlog, other_open >>
       \/ /\ backlog > 0
          /\ backlog' = backlog - 1
          /\ conn' = "other"
          /\ other_open' = TRUE
          /\ UNCHANGED << pending, sConn >>
    /\ open_conns' = open_conns + 1
    /\ spc' = "recv_len"
    /\ UNCHANGED << envVars, clientVars, serverLocals, server_progress, launcher,
                    wd_last, relaunched >>
    /\ UNCHANGED pollerSide

\* SRecvLen with `continue` leaving the loop body before conn.close() and
\* without the finally clause
SRecvLenNoClose ==
    /\ spc = "recv_len"
    /\ \E k \in RecvCounts(ConnIn, 4, ServerPeerGone) :
          /\ c2s' = Drop(c2s, k)
          /\ IF k = 0
             THEN /\ spc' = "check"
                  /\ UNCHANGED path_length
             ELSE /\ path_length' = FromBytes(Take(c2s, k))
                  /\ spc' = "recv_path"
    /\ UNCHANGED << now, ticks, srvFS, dest, linkUp, s2c, sentLog, reqLog, clientVars,
                    sConn, pending, file_path, srv_file_name, srv_file_size,
                    offset, server_progress, srvCtl >>
    /\ UNCHANGED pollerSide

\* SRecvLen without the test "if not name_len_bytes": an empty read is taken
\* for a path length and the handler goes on to read the path
SRecvLenNoEmptyTest ==
    /\ spc = "recv_len"
    /\ \E k \in RecvCounts(ConnIn, 4, ServerPeerGone) :
          /\ c2s' = Drop(c2s, k)
          /\ path_length' = IF k = 0 THEN 0 ELSE FromBytes(Take(c2s, k))
          /\ spc' = "recv_path"
    /\ UNCHANGED << now, ticks, srvFS, dest, linkUp, s2c, sentLog, reqLog, clientVars,
                    sConn, pending, file_path, srv_file_name, srv_file_size,
                    offset, server_progress, srvCtl >>
    /\ UNCHANGED pollerSide

\* name_len_bytes = conn.recv(4); nothing received: close and continue (the
\* finally clause closes conn once more)
SRecvLen ==
    /\ spc = "recv_len"
    /\ \E k \in RecvCounts(ConnIn, 4, ServerPeerGone) :
          /\ c2s' = Drop(c2s, k)
          /\ IF k = 0
             THEN /\ spc' = "close"
                  /\ UNCHANGED path_length
             ELSE /\ path_length' = FromBytes(Take(c2s, k))
                  /\ spc' = "recv_path"
    /\ UNCHANGED << now, ticks, srvFS, dest, linkUp, s2c, sentLog, reqLog, clientVars,
                    sConn, pending, file_path, srv_file_name, srv_file_size,
                    offset, server_progress, srvCtl >>
    /\ UNCHANGED pollerSide

\* SRecvPath outside the try block: a UnicodeDecodeError leaves start_server
SRecvPathUncaught ==
    /\ spc = "recv_path"
    /\ \E k \in RecvCounts(c2s, path_length, ServerPeerGone) :
          /\ c2s' = Drop(c2s, k)
          /\ IF Decode(Take(c2s, k)).ok
             THEN /\ file_path' = Decode(Take(c2s, k)).str
                  /\ spc' = "check_file"
             ELSE /\ spc' = "restart"
                  /\ UNCHANGED file_path
    /\ UNCHANGED << now, ticks, srvFS, dest, linkUp, s2c, sentLog, reqLog, clientVars,
                    sConn, pending, path_length, srv_file_name, srv_file_size,
                    offset, server_progress, srvCtl >>
    /\ UNCHANGED pollerSide

\* remote_path = conn.recv(path_length).decode('utf-8'); file_path = remote_path
SRecvPath ==
    /\ spc = "recv_path"
    /\ \E k \in RecvCounts(c2s, path_length, ServerPeerGone) :
          /\ c2s' = Drop(c2s, k)
          /\ IF Decode(Take(c2s, k)).ok
             THEN /\ file_path' = Decode(Take(c2s, k)).str
                  /\ spc' = "check_file"
             ELSE /\ spc' = "close"
                  /\ UNCHANGED file_path
    /\ UNCHANGED << now, ticks, srvFS, dest, linkUp, s2c, sentLog, reqLog, clientVars,
                    sConn, pending, path_length, srv_file_name, srv_file_size,
                    offset, server_progress, srvCtl >>
    /\ UNCHANGED pollerSide

\* send_image: if not check_file_readable(file_path)
SCheckFile ==
    /\ spc = "check_file"
    /\ spc' = IF check_file_readable(file_path) THEN "stat" ELSE "nf_len"
    /\ UNCHANGED << envVars, clientVars, sConn, pending, serverLocals, server_progress,
                    srvCtl >>
    /\ UNCHANGED pollerSide

\* conn.sendall(data) inside send_image: on success go to ok, on an exception
\* send_image returns False and start_server closes the connection
SSend(data, ok) ==
    /\ \E sent \in SendOutcomes(cSock = "closed") :
          IF sent
          THEN /\ s2c' = s2c \o data
               /\ sentLog' = sentLog \o data
               /\ spc' = ok
          ELSE /\ spc' = "close"
               /\ UNCHANGED << s2c, sentLog >>
    /\ UNCHANGED << now, ticks, srvFS, dest, linkUp, c2s, reqLog, clientVars, sConn,
                    pending, path_length, file_path, srv_file_name,
                    srv_file_size, server_progress, srvCtl >>

\* conn.sendall((0).to_bytes(4, byteorder="big"))
SSentinelLen ==
    /\ spc = "nf_len"
    /\ SSend(ToBytes(0, 4), "nf_size")
    /\ UNCHANGED offset
    /\ UNCHANGED pollerSide

\* SSentinelSize with the checkpoint written for every answered request
SSentinelSizeSavesTime ==
    /\ spc = "nf_size"
    /\ \E sent \in SendOutcomes(cSock = "closed") :
          IF sent
          THEN /\ s2c' = s2c \o ToBytes(0, 8)
               /\ sentLog' = sentLog \o ToBytes(0, 8)
               /\ server_progress' = [state |-> "json",
                                      last_send_time |-> Some(now \div TicksPerSecond)]
          ELSE UNCHANGED << s2c, sentLog, server_progress >>
    /\ spc' = "close"
    /\ UNCHANGED << now, ticks, srvFS, dest, linkUp, c2s, reqLog, clientVars, sConn,
                    pending, serverLocals, srvCtl >>
    /\ UNCHANGED pollerSide

\* conn.sendall((0).to_bytes(8, byteorder="big")); return False
SSentinelSize ==
    /\ spc = "nf_size"
    /\ SSend(ToBytes(0, 8), "close")
    /\ UNCHANGED offset
    /\ UNCHANGED pollerSide

\* file_name = os.path.basename(file_path); file_size = os.path.getsize(file_path)
SStat ==
    /\ spc = "stat"
    /\ IF FileAt(file_path).kind = "missing"
       THEN /\ spc' = "close"
            /\ UNCHANGED << srv_file_name, srv_file_size >>
       ELSE /\ srv_file_name' = Basename(file_path)
            /\ srv_file_size' = Len(FileAt(file_path).data)
            /\ spc' = "send_name_len"
    /\ UNCHANGED << envVars, clientVars, sConn, pending, path_length, file_path,
                    offset, server_progress, srvCtl >>
    /\ UNCHANGED pollerSide

\* conn.sendall(len(file_name).to_bytes(4, byteorder="big"))
SSendNameLen ==
    /\ spc = "send_name_len"
    /\ SSend(ToBytes(StrLen(srv_file_name), 4), "send_name")
    /\ UNCHANGED offset
    /\ UNCHANGED pollerSide

\* conn.sendall(file_name.encode("utf-8"))
SSendName ==
    /\ spc = "send_name"
    /\ SSend(Encode(srv_file_name), "send_size")
    /\ UNCHANGED offset
    /\ UNCHANGED pollerSide

\* conn.sendall(file_size.to_bytes(8, byteorder="big"))
SSendSize ==
    /\ spc = "send_size"
    /\ SSend(ToBytes(srv_file_size, 8), "stream")
    /\ offset' = 0
    /\ UNCHANGED pollerSide

\* one round of: chunk = f.read(4096); if not chunk: break; conn.sendall(chunk)
SStream ==
    /\ spc = "stream"
    /\ LET data == FileAt(file_path).data
           chunk == SubSeq(data, offset + 1, Min(Len(data), offset + ChunkSize))
       IN  IF FileAt(file_path).kind # "file" \/ ~FileAt(file_path).readable
           THEN /\ spc' = "close"
                /\ UNCHANGED << envVars, clientVars, sConn, pending, serverLocals,
                                server_progress, srvCtl >>
           ELSE IF chunk = << >>
           THEN /\ spc' = "save_time"
                /\ UNCHANGED << envVars, clientVars, sConn, pending, serverLocals,
                                server_progress, srvCtl >>
           ELSE /\ SSend(chunk, "stream")
                /\ offset' = offset + Len(chunk)
    /\ UNCHANGED pollerSide

\* save_last_send_time(); return True
SSaveTime ==
    /\ spc = "save_time"
    /\ server_progress' = save_last_send_time(now)
    /\ spc' = "close"
    /\ UNCHANGED << envVars, clientVars, sConn, pending, serverLocals, srvCtl >>
    /\ UNCHANGED pollerSide

\* SClose with the watchdog consulted once, before the loop, and not in it
SCloseNoCheck ==
    /\ spc = "close"
    /\ IF conn = "client"
       THEN sConn' = "closed" /\ c2s' = << >>
       ELSE UNCHANGED << sConn, c2s >>
    /\ conn' = "none"
    /\ open_conns' = open_conns - 1
    /\ wd_last' = "none"
    /\ other_open' = FALSE
    /\ spc' = "accept"
    /\ UNCHANGED << now, ticks, srvFS, dest, linkUp, s2c, sentLog, reqLog, clientVars,
                    pending, serverLocals, server_progress, backlog, launcher,
                    relaunched >>
    /\ UNCHANGED pollerSide

\* finally: conn.close(), and the next round of the loop
SClose ==
    /\ spc = "close"
    /\ IF conn = "client"
       THEN sConn' = "closed" /\ c2s' = << >>
       ELSE UNCHANGED << sConn, c2s >>
    /\ conn' = "none"
    /\ open_conns' = open_conns - 1
    /\ wd_last' = "none"
    /\ other_open' = FALSE
    /\ spc' = "check"
    /\ UNCHANGED << now, ticks, srvFS, dest, linkUp, s2c, sentLog, reqLog, clientVars,
                    pending, serverLocals, server_progress, backlog, launcher,
                    relaunched >>
    /\ UNCHANGED pollerSide

\* another peer connects to the listening daemon
OConnect ==
    /\ spc \notin {"restart", "exited", "off"}
    /\ backlog < MaxOthers
    /\ backlog' = backlog + 1
    /\ UNCHANGED << envVars, clientVars, spc, sConn, pending, serverLocals,
                    server_progress, conn, open_conns, launcher, wd_last, other_open,
                    relaunched >>
    /\ UNCHANGED pollerSide

\* the other peer closes its connection, having sent nothing
OClose ==
    /\ conn = "other"
    /\ other_open
    /\ other_open' = FALSE
    /\ UNCHANGED << envVars, clientVars, spc, sConn, pending, serverLocals,
                    server_progress, conn, backlog, open_conns, launcher, wd_last,
                    relaunched >>
    /\ UNCHANGED pollerSide

(***************************************************************************)
(* Environment                                                             *)
(***************************************************************************)
\* how far the clock may advance at once: one tick, or just short of the
\* daemon's limit
TickSteps == {1, MAX_NO_SEND_HOURS * 3600 * TicksPerSecond - 1}

Tick ==
    /\ ticks < MaxTicks
    /\ \E d \in TickSteps : now' = now + d
    /\ ticks' = ticks + 1
    /\ UNCHANGED << srvFS, dest, linkUp, c2s, s2c, sentLog, reqLog, clientVars,
                    serverVars >>
    /\ UNCHANGED pollerSide

\* the connection is lost: what is in flight never arrives, reads return b''
ConnLost ==
    /\ linkUp
    /\ cSock = "connected"
    /\ linkUp' = FALSE
    /\ c2s' = << >>
    /\ s2c' = << >>
    /\ UNCHANGED << now, ticks, srvFS, dest, sentLog, reqLog, clientVars, serverVars >>
    /\ UNCHANGED pollerSide

(***************************************************************************)
(* The transfer system: one client request against the running daemon      *)
(***************************************************************************)
\* the poller is not running
PollerIdle ==
    /\ db = {}
    /\ localFS = [q \in {} |-> 0]
    /\ ppc = "off"
    /\ last_created_time = None
    /\ last_task_id = None
    /\ df = << >>
    /\ row_idx = 0
    /\ path_idx = 0
    /\ has_successful_download = FALSE
    /\ row_requests = 0
    /\ complete = {}
    /\ failed = {}
    /\ attempted = {}
    /\ last_success = None

WatchdogIdle ==
    /\ wd_daemon = None
    /\ wd_poller = None
    /\ wd_update = None

Init ==
    /\ PollerIdle
    /\ sync_progress = [state |-> "absent", last_created_time |-> None,
                        last_task_id |-> None, last_download_time |-> None]
    /\ WatchdogIdle
    /\ now = 0
    /\ ticks = 0
    /\ srvFS = ServerFiles
    /\ dest = [n \in {} |-> << >>]
    /\ linkUp = TRUE
    /\ c2s = << >>
    /\ s2c = << >>
    /\ sentLog = << >>
    /\ reqLog = << >>
    /\ image_name \in RequestPaths
    /\ cpc = "connect"
    /\ cSock = "new"
    /\ hdr = << >>
    /\ name_bytes = << >>
    /\ size_bytes = << >>
    /\ file_name_length = 0
    /\ file_name = << >>
    /\ file_size = 0
    /\ received_data = << >>
    /\ outcome = "none"
    /\ result = FALSE
    /\ spc = "check"
    /\ sConn = "none"
    /\ pending = FALSE
    /\ path_length = 0
    /\ file_path = << >>
    /\ srv_file_name = << >>
    /\ srv_file_size = 0
    /\ offset = 0
    /\ server_progress \in {NoFile, save_last_send_time(0)}
    /\ conn = "none"
    /\ backlog = 0
    /\ open_conns = 0
    /\ launcher \in {"server", "run_server"}
    /\ wd_last = "none"
    /\ other_open = FALSE
    /\ relaunched = FALSE

Next ==
    \/ CConnect \/ CSendLen \/ CSendPath \/ CRecvNameLen \/ CRecvName
    \/ CRecvSize \/ CRecvChunk \/ CSave
    \/ SCheck \/ SRestart \/ SAccept \/ SRecvLen \/ SRecvPath \/ SCheckFile
    \/ SSentinelLen \/ SSentinelSize \/ SStat \/ SSendNameLen \/ SSendName
    \/ SSendSize \/ SStream \/ SSaveTime \/ SClose \/ OConnect \/ OClose
    \/ Tick \/ ConnLost

Spec == Init /\ [][Next]_vars

(***************************************************************************)
(* Properties of the transfer system                                       *)
(***************************************************************************)
\* the connection was established and has not been interrupted
Uninterrupted == linkUp /\ outcome # "connect_error"

\* the request has been handled by both sides
ExchangeEnded == cpc = "done" /\ sConn = "closed" /\ spc \in {"check", "accept"}

\* the client decoded a size > 0 and the stream ended before that many bytes
LostMidPayload ==
    /\ cpc = "done"
    /\ outcome = "error"
    /\ file_size > 0
    /\ Len(received_data) < file_size

\* C1: a request for an existing readable file of any length n >= 0, over a
\* connection that is not interrupted, ends with the client returning success
\* and save_dir/name holding exactly the file's bytes.
C1_RoundTrip ==
    (cpc = "done" /\ Uninterrupted /\ check_file_readable(image_name))
        => /\ result = TRUE
           /\ Basename(image_name) \in DOMAIN dest
           /\ dest[Basename(image_name)] = FileAt(image_name).data

\* C2: a request for a path that does not exist, is no regular file or is not
\* readable puts exactly nameLength = 0 and size = 0 (12 zero bytes) on the
\* connection, the client returns false and the destination directory is
\* left as it was.
C2_SentinelCorrect ==
    (ExchangeEnded /\ Uninterrupted /\ ~check_file_readable(image_name))
        => /\ sentLog = ToBytes(0, 4) \o ToBytes(0, 8)
           /\ result = FALSE
           /\ DOMAIN dest = {}

\* C3: when the connection closes after a size > 0 was announced and before
\* size payload bytes were received, the client reports failure and nothing
\* exists in the destination directory; the destination is written only once
\* all size bytes have been accumulated.
C3_TruncationHandling ==
    /\ (cpc = "done" /\ file_size > 0 /\ Len(received_data) < file_size)
          => (result = FALSE /\ DOMAIN dest = {})
    /\ DOMAIN dest # {}
          => /\ Len(received_data) = file_size
             /\ DOMAIN dest = {file_name}
             /\ dest[file_name] = received_data

\* a transfer cut after part of a payload of known size has arrived
C3_Witness ==
    /\ LostMidPayload
    /\ Len(received_data) > 0
    /\ file_size = Len(FileAt(image_name).data)

\* C7: a header field is decoded as a value only from a read that returned
\* the field's full width (4 bytes of nameLength, nameLength bytes of name,
\* 8 bytes of size); in particular the not-found sentinel is reported only
\* for four received zero bytes.
C7_HeaderDecodeStrict ==
    /\ (cpc \in {"recv_name", "recv_size", "recv_chunk", "save"}
            \/ outcome \in {"sentinel", "size0", "saved"})
          => Len(hdr) = 4
    /\ (cpc \in {"recv_size", "recv_chunk", "save"} \/ outcome \in {"size0", "saved"})
          => Len(name_bytes) = file_name_length
    /\ (cpc \in {"recv_chunk", "save"} \/ outcome \in {"size0", "saved"})
          => Len(size_bytes) = 8

\* C8: when the client has read nameLength = 0, the not-found sentinel, and
\* the exchange has ended, every byte the daemon sent on the connection has
\* been read by the client.
C8_SentinelSizeConsumed ==
    (ExchangeEnded /\ Uninterrupted /\ outcome = "sentinel" /\ hdr = ToBytes(0, 4))
        => s2c = << >>

\* C9: the value request_image returns for a connection lost in the middle of
\* the payload differs from the value it returns for the not-found sentinel.
C9_LostDistinctFromNotFound ==
    LostMidPayload => result # SentinelResult

\* the whole answer for the file at file_path: header, then content
FullResponse ==
    ToBytes(StrLen(srv_file_name), 4) \o Encode(srv_file_name)
        \o ToBytes(srv_file_size, 8) \o FileAt(file_path).data

\* C10: the daemon's checkpoint changes only in the step that follows a fully
\* sent payload, and that step sets last_send_time to the current time; every
\* other way a connection ends leaves the checkpoint as it was.
C10_CheckpointOnFullSendOnly ==
    [][/\ (server_progress' # server_progress)
            => (spc = "save_time" /\ sentLog = FullResponse)
       /\ (spc = "save_time" /\ spc' = "close")
            => server_progress' = [state |-> "json",
                                   last_send_time |-> Some(now \div TicksPerSecond)]
      ]_vars

\* a connection whose payload was sent in full has updated the checkpoint
C10_Witness ==
    /\ spc = "close"
    /\ sentLog = FullResponse
    /\ srv_file_size > 0
    /\ now >= TicksPerSecond
    /\ server_progress = save_last_send_time(now)

\* the daemon is handling an accepted connection
Handling ==
    spc \in {"recv_len", "recv_path", "check_file", "nf_len", "nf_size", "stat",
             "send_name_len", "send_name", "send_size", "stream", "save_time",
             "close"}

\* C11: at most one accepted connection is open at any moment, and a
\* connection is accepted only when the previous one has been handled and
\* closed, whichever way its handling ended.
C11_SequentialAccept ==
    /\ [](open_conns <= 1)
    /\ [](Handling <=> open_conns = 1)
    /\ [][open_conns' > open_conns => (open_conns = 0 /\ conn = "none")]_vars

\* another connection waits in the backlog while a payload is streamed
C11_Witness ==
    /\ spc = "stream"
    /\ offset > 0
    /\ conn = "client"
    /\ open_conns = 1
    /\ backlog > 0

\* C16: a failure while a connection is handled ends that connection only:
\* from any point of the handling the daemon reaches the close of the
\* connection and then the head of the accept loop; it restarts only from a
\* watchdog check that found the checkpoint stale, and exits only from there.
C16_ErrorsContained ==
    [][/\ (Handling /\ spc # "close") => (Handling')
       /\ spc = "close" => spc' \in {"close", "check"}
       /\ (spc' = "restart" /\ spc # "restart")
            => (spc = "check" /\ check_need_restart(server_progress, now))
       /\ (spc' = "exited" /\ spc # "exited") => spc = "restart"
      ]_vars

\* the daemon waits for the next connection after a request it could not
\* decode (the whole request arrived, the path cut inside a character)
C16_Witness ==
    /\ spc = "accept"
    /\ sConn = "closed"
    /\ linkUp
    /\ image_name = PathE
    /\ path_length = 2
    /\ file_path = << >>
    /\ sentLog = << >>

\* C17: when the watchdog check has returned true, the daemon is relaunched:
\* the process that leaves the restart is a daemon at the head of its accept
\* loop, whether it was started by server.py or by run_server.main.
C17_Relaunched ==
    [][(spc = "restart" /\ spc' # "restart") => spc' = "check"]_vars

\* C19: a connection is accepted only after a watchdog check of the same
\* round of the loop has returned false, and a process whose check has
\* returned true accepts no connection any more.
C19_CheckBeforeAccept ==
    /\ [][open_conns' > open_conns => wd_last = "false"]_vars
    /\ [](wd_last = "true" => spc = "restart")

\* a second round of the loop has accepted a connection after its own check
C19_Witness ==
    /\ spc = "recv_len"
    /\ conn = "other"
    /\ sConn = "closed"
    /\ wd_last = "false"

\* C20: the 4-byte length the client sends is the number of path bytes it
\* sends after it, and the 4-byte length the daemon sends is the number of
\* name bytes it sends after it.
C20_PrefixCountsBytes ==
    /\ Len(reqLog) > 4 => FromBytes(Take(reqLog, 4)) = Len(reqLog) - 4
    /\ spc = "send_size" => FromBytes(Take(sentLog, 4)) = Len(sentLog) - 4

(***************************************************************************)
(* sync_pictures.py: the checkpoint                                        *)
(***************************************************************************)
MAX_NO_DOWNLOAD_HOURS == 2

NoProgress == [state |-> "absent", last_created_time |-> None,
               last_task_id |-> None, last_download_time |-> None]

\* a file that holds no JSON: opened for writing and not, or not fully, written
TornPollerFile == [state |-> "torn", last_created_time |-> None,
                   last_task_id |-> None, last_download_time |-> None]

\* load_progress: (None, None, None) without a file and for a file that is
\* no JSON; data.get(key) is None for a key the object does not have
load_progress(f) ==
    IF f.state = "absent" THEN << None, None, None >>
    ELSE IF f.state # "json" THEN << None, None, None >>
    ELSE << f.last_created_time, f.last_task_id, f.last_download_time >>

\* save_progress(created_time_str, task_id, download_time_str=None): the file
\* it leaves; last_download_time is written only when it is given
save_progress(created_time_str, task_id, download_time_str) ==
    [state |-> "json",
     last_created_time |-> created_time_str,
     last_task_id |-> task_id,
     last_download_time |-> IF download_time_str # None THEN download_time_str
                            ELSE None]

\* update_download_time without load_progress: the time is saved with no cursor
update_download_time_no_load(f, t) ==
    save_progress(None, None, Some(StrfTime(t)))

\* update_download_time() at time t on progress file f: the file it leaves
update_download_time(f, t) ==
    save_progress(load_progress(f)[1], load_progress(f)[2], Some(StrfTime(t)))

\* check_need_restart() of sync_pictures.py, at time t on progress file f
check_need_restart_poller(f, t) ==
    LET last_download_time == load_progress(f)[3]
    IN  IF last_download_time = None THEN FALSE
        ELSE HoursReached(t, StrpTime(last_download_time[1]), MAX_NO_DOWNLOAD_HOURS)

(***************************************************************************)
(* sync_pictures.py: paths                                                 *)
(***************************************************************************)
Space == 32
LOCAL_ROOT == << 68, 58, 92 >>      \* 'D:\\'

RECURSIVE LStrip(_, _)
LStrip(s, cs) == IF s # << >> /\ Head(s) \in cs THEN LStrip(Tail(s), cs) ELSE s

RECURSIVE RStrip(_, _)
RStrip(s, cs) ==
    IF s # << >> /\ s[Len(s)] \in cs THEN RStrip(Take(s, Len(s) - 1), cs) ELSE s

\* str.strip()
Strip(s) == RStrip(LStrip(s, {Space}), {Space})

\* os.path.join(a, b) for a relative b without a drive
Join(a, b) ==
    IF a = << >> \/ a[Len(a)] \in Seps \/ a[Len(a)] = Colon THEN a \o b
    ELSE a \o << Backslash >> \o b

\* os.path.dirname: the drive, and what precedes the last separator without
\* its trailing separators (unless it consists of separators only)
Dirname(p) ==
    LET d == DriveLen(p)
        rest == Drop(p, d)
        head == Take(rest, Len(rest) - Len(AfterLastSep(rest)))
    IN  Take(p, d) \o (IF RStrip(head, Seps) = << >> THEN head
                       ELSE RStrip(head, Seps))

\* one file, however its path is spelled: Windows takes '/' for '\'
Norm(p) == [k \in 1..Len(p) |-> IF p[k] = Slash THEN Backslash ELSE p[k]]

\* ensure_local_path: the remote path without its drive and leading
\* separators, under LOCAL_ROOT
ensure_local_path(remote_path) ==
    LET rel_path == LStrip(Drop(remote_path, DriveLen(remote_path)), Seps)
        base == IF LOCAL_ROOT[Len(LOCAL_ROOT)] = Colon
                THEN LOCAL_ROOT \o << Backslash >> ELSE LOCAL_ROOT
    IN  Join(base, rel_path)

\* os.path.exists(p) and os.path.getsize(p) > 0
ExistsNonEmpty(p) == Norm(p) \in DOMAIN localFS /\ localFS[Norm(p)] > 0

\* AlreadyDownloaded with the size test inverted
AlreadyDownloadedIfEmpty(local_path) ==
    Norm(local_path) \in DOMAIN localFS /\ localFS[Norm(local_path)] = 0

\* download_for_row's test for skipping a path
AlreadyDownloaded(local_path) == ExistsNonEmpty(local_path)

(***************************************************************************)
(* sync_pictures.py: the table and fetch_new_rows                          *)
(***************************************************************************)
\* a < b for strings, as the database compares TASK_ID values
RECURSIVE StrLess(_, _)
StrLess(a, b) ==
    IF b = << >> THEN FALSE
    ELSE IF a = << >> THEN TRUE
    ELSE IF Head(a) # Head(b) THEN Head(a) < Head(b)
    ELSE StrLess(Tail(a), Tail(b))

\* (CREATED_TIME, TASK_ID) of r before that of q
RowLess(r, q) ==
    \/ r.CREATED_TIME < q.CREATED_TIME
    \/ r.CREATED_TIME = q.CREATED_TIME /\ StrLess(r.TASK_ID, q.TASK_ID)

\* ORDER BY CREATED_TIME, TASK_ID
RECURSIVE OrderBy(_)
OrderBy(S) ==
    IF S = {} THEN << >>
    ELSE LET first == CHOOSE r \in S : \A q \in S \ {r} : RowLess(r, q)
         IN  << first >> \o OrderBy(S \ {first})

\* last_task_id or '0'
OrZero(task_id) == IF task_id = None \/ task_id[1] = << >> THEN << 48 >> ELSE task_id[1]

\* fetch_new_rows with TASK_ID >= :last_task_id for TASK_ID > :last_task_id
fetch_new_rows_inclusive(rows, created, task_id) ==
    IF created = None THEN OrderBy(rows)
    ELSE OrderBy({r \in rows :
                    \/ r.CREATED_TIME > StrpTime(created[1])
                    \/ /\ r.CREATED_TIME = StrpTime(created[1])
                       /\ ~StrLess(r.TASK_ID, OrZero(task_id))})

\* the WHERE clause of fetch_new_rows: none without last_created_time
WhereClause(r, created, task_id) ==
    \/ created = None
    \/ r.CREATED_TIME > StrpTime(created[1])
    \/ /\ r.CREATED_TIME = StrpTime(created[1])
       /\ StrLess(OrZero(task_id), r.TASK_ID)

\* fetch_new_rows(connection, last_created_time, last_task_id)
fetch_new_rows(rows, created, task_id) ==
    OrderBy({r \in rows : WhereClause(r, created, task_id)})

PathXA == << 68, 58, 47, 120, 47, 97 >>    \* "D:/x/a"
PathDB == << 68, 58, 47, 98 >>             \* "D:/b"

\* the work items: (t1, "5"), (t1, "7"), (t2, "1"), CREATED_TIME in whole
\* seconds, eight path columns each, NULL or blank in part
Rows ==
    { [TASK_ID |-> << 53 >>, CREATED_TIME |-> 1 * TicksPerSecond,
       paths |-> << PathXA, None, << Space >>, None, None, None, None, None >>],
      [TASK_ID |-> << 55 >>, CREATED_TIME |-> 1 * TicksPerSecond,
       paths |-> << None, PathXA, None, None, << Space >> \o PathDB, None, None, None >>],
      [TASK_ID |-> << 49 >>, CREATED_TIME |-> 2 * TicksPerSecond,
       paths |-> << None, None, None, None, None, None, None, PathDB >>] }

(***************************************************************************)
(* sync_pictures.py: main, run_once and download_for_row                   *)
(***************************************************************************)
\* the file names under which request_image(remote_path) can save a file: the
\* daemon names what it serves by the basename of the path it has read, which
\* is the requested path or, after a short read, a prefix of it
ServedNames(remote_path) ==
    {n \in {Basename(Take(remote_path, k)) : k \in 1..Len(remote_path)} : CanCreate(n)}

\* the results of request_image(server_ip, server_port, remote_path, save_dir):
\* False and no file, or True and a non-empty file in save_dir
RequestOutcomes(remote_path) ==
    {[success |-> FALSE, name |-> << >>]}
        \cup {[success |-> TRUE, name |-> n] : n \in ServedNames(remote_path)}

ResetLocals ==
    /\ last_created_time' = None
    /\ last_task_id' = None
    /\ df' = << >>
    /\ row_idx' = 0
    /\ path_idx' = 0
    /\ has_successful_download' = FALSE
    /\ row_requests' = 0

pollerLocals == << last_created_time, last_task_id, df, row_idx, path_idx,
                   has_successful_download, row_requests >>

\* main: if check_need_restart(): sleep, restart_program()
PCheck ==
    /\ ppc = "check"
    /\ ppc' = IF check_need_restart_poller(sync_progress, now) THEN "restart" ELSE "load"
    /\ UNCHANGED << now, ticks, sync_progress, db, localFS, pollerLocals, complete, pollHist,
                    transferSide >>

\* restart_program: a new process runs main from its start
PRestart ==
    /\ ppc = "restart"
    /\ ppc' = "check"
    /\ ResetLocals
    /\ UNCHANGED << now, ticks, sync_progress, db, localFS, complete, pollHist, transferSide >>

\* run_once: last_created_time, last_task_id, last_download_time = load_progress()
PLoad ==
    /\ ppc = "load"
    /\ last_created_time' = load_progress(sync_progress)[1]
    /\ last_task_id' = load_progress(sync_progress)[2]
    /\ ppc' = "connect"
    /\ UNCHANGED << now, ticks, sync_progress, db, localFS, df, row_idx, path_idx,
                    has_successful_download, row_requests, complete, pollHist, transferSide >>

\* PConnect with the cursor it has loaded written back when there is no
\* connection
PConnectSavesOnFailure ==
    /\ ppc = "connect"
    /\ \E connected \in BOOLEAN :
          /\ ppc' = IF connected THEN "fetch" ELSE "sleep"
          /\ sync_progress' = IF connected THEN sync_progress
                              ELSE save_progress(last_created_time, last_task_id, None)
    /\ UNCHANGED << now, ticks, db, localFS, pollerLocals, complete, pollHist,
                    transferSide >>

\* connection = connect_to_oracle(); if not connection: return
PConnect ==
    /\ ppc = "connect"
    /\ \E connected \in BOOLEAN : ppc' = IF connected THEN "fetch" ELSE "sleep"
    /\ UNCHANGED << now, ticks, sync_progress, db, localFS, pollerLocals, complete, pollHist,
                    transferSide >>

\* df = fetch_new_rows(connection, last_created_time, last_task_id);
\* if df.empty: return
PFetch ==
    /\ ppc = "fetch"
    /\ df' = fetch_new_rows(db, last_created_time, last_task_id)
    /\ IF fetch_new_rows(db, last_created_time, last_task_id) = << >>
       THEN ppc' = "sleep" /\ UNCHANGED row_idx
       ELSE ppc' = "row" /\ row_idx' = 1
    /\ failed' = {}
    /\ UNCHANGED << now, ticks, sync_progress, db, localFS, last_created_time,
                    last_task_id, path_idx, has_successful_download, row_requests,
                    complete, attempted, last_success, transferSide >>

\* for _, row in df.iterrows(): download_for_row(row) is entered
PRow ==
    /\ ppc = "row"
    /\ path_idx' = 1
    /\ has_successful_download' = FALSE
    /\ row_requests' = 0
    /\ ppc' = "path"
    /\ UNCHANGED << now, ticks, sync_progress, db, localFS, last_created_time,
                    last_task_id, df, row_idx, complete, pollHist, transferSide >>

\* download_for_row: one round of: for remote_path in paths
PPath ==
    /\ ppc = "path"
    /\ LET raw == df[row_idx].paths[path_idx]
           remote_path == Strip(raw)
           local_path == ensure_local_path(remote_path)
           save_dir == Dirname(local_path)
       IN  IF raw = None \/ remote_path = << >> \/ AlreadyDownloaded(local_path)
           THEN UNCHANGED << localFS, has_successful_download, row_requests, failed >>
           ELSE \E o \in RequestOutcomes(remote_path) :
                   /\ row_requests' = row_requests + 1
                   /\ failed' = IF o.success THEN failed
                                ELSE failed \cup {df[row_idx].TASK_ID}
                   /\ has_successful_download' = (has_successful_download \/ o.success)
                   /\ localFS' =
                        IF o.success
                        THEN [q \in DOMAIN localFS \cup {Norm(Join(save_dir, o.name))} |->
                                 IF q = Norm(Join(save_dir, o.name)) THEN 1 ELSE localFS[q]]
                        ELSE localFS
    /\ path_idx' = path_idx + 1
    /\ ppc' = IF path_idx < Len(df[row_idx].paths) THEN "path" ELSE "after_paths"
    /\ attempted' = IF path_idx < Len(df[row_idx].paths) THEN attempted
                    ELSE attempted \cup {df[row_idx].TASK_ID}
    /\ UNCHANGED << now, ticks, sync_progress, db, last_created_time, last_task_id,
                    df, row_idx, complete, last_success, transferSide >>

\* every path of the row has its file, non-empty, on the local disk
AllDownloaded(row) ==
    \A k \in 1..Len(row.paths) :
        (row.paths[k] # None /\ Strip(row.paths[k]) # << >>)
            => ExistsNonEmpty(ensure_local_path(Strip(row.paths[k])))

\* download_for_row: if has_successful_download: update_download_time()
PAfterPaths ==
    /\ ppc = "after_paths"
    /\ sync_progress' = IF has_successful_download
                        THEN update_download_time(sync_progress, now)
                        ELSE sync_progress
    /\ complete' = IF AllDownloaded(df[row_idx])
                   THEN complete \cup {df[row_idx].TASK_ID} ELSE complete
    /\ failed' = IF AllDownloaded(df[row_idx])
                 THEN failed \ {df[row_idx].TASK_ID} ELSE failed
    /\ last_success' = IF has_successful_download THEN Some(StrfTime(now))
                       ELSE last_success
    /\ ppc' = "save"
    /\ UNCHANGED << now, ticks, db, localFS, pollerLocals, attempted, transferSide >>

\* PSave with the cursor of the batch's last row saved after each row
PSaveBatchEnd ==
    /\ ppc = "save"
    /\ sync_progress' = save_progress(Some(StrfTime(df[Len(df)].CREATED_TIME)),
                                      Some(df[Len(df)].TASK_ID), None)
    /\ IF row_idx < Len(df)
       THEN row_idx' = row_idx + 1 /\ ppc' = "row"
       ELSE UNCHANGED row_idx /\ ppc' = "sleep"
    /\ UNCHANGED << now, ticks, db, localFS, last_created_time, last_task_id, df,
                    path_idx, has_successful_download, row_requests, complete, pollHist,
                    transferSide >>

\* run_once: created_time_str = created_time.strftime(...), task_id =
\* str(row['TASK_ID']); save_progress(latest_created_time, latest_task_id)
PSave ==
    /\ ppc = "save"
    /\ sync_progress' = save_progress(Some(StrfTime(df[row_idx].CREATED_TIME)),
                                      Some(df[row_idx].TASK_ID), None)
    /\ IF row_idx < Len(df)
       THEN row_idx' = row_idx + 1 /\ ppc' = "row"
       ELSE UNCHANGED row_idx /\ ppc' = "sleep"
    /\ UNCHANGED << now, ticks, db, localFS, last_created_time, last_task_id, df,
                    path_idx, has_successful_download, row_requests, complete, pollHist,
                    transferSide >>

\* main: run_once has returned; time.sleep(poll_interval_seconds)
PSleep ==
    /\ ppc = "sleep"
    /\ ppc' = "check"
    /\ ResetLocals
    /\ UNCHANGED << now, ticks, sync_progress, db, localFS, complete, pollHist, transferSide >>

\* an exception out of run_once (the database, the disk): main's except
\* clause sleeps and calls restart_program
PFault ==
    /\ ppc \in {"fetch", "path", "after_paths", "save"}
    /\ ppc' = "check"
    /\ ResetLocals
    /\ UNCHANGED << now, ticks, sync_progress, db, localFS, complete, pollHist, transferSide >>

\* how far the clock may advance at once: one tick, or just short of the
\* poller's limit
PollTickSteps == {1, MAX_NO_DOWNLOAD_HOURS * 3600 * TicksPerSecond - 1}

PTick ==
    /\ ticks < MaxTicks
    /\ \E d \in PollTickSteps : now' = now + d
    /\ ticks' = ticks + 1
    /\ UNCHANGED << pollVars, transferSide >>

\* no client, no daemon
TransferIdle ==
    /\ srvFS = ServerFiles
    /\ dest = [n \in {} |-> << >>]
    /\ linkUp = TRUE
    /\ c2s = << >>
    /\ s2c = << >>
    /\ sentLog = << >>
    /\ reqLog = << >>
    /\ image_name = << >>
    /\ cpc = "off"
    /\ cSock = "new"
    /\ hdr = << >>
    /\ name_bytes = << >>
    /\ size_bytes = << >>
    /\ file_name_length = 0
    /\ file_name = << >>
    /\ file_size = 0
    /\ received_data = << >>
    /\ outcome = "none"
    /\ result = FALSE
    /\ spc = "off"
    /\ sConn = "none"
    /\ pending = FALSE
    /\ path_length = 0
    /\ file_path = << >>
    /\ srv_file_name = << >>
    /\ srv_file_size = 0
    /\ offset = 0
    /\ conn = "none"
    /\ backlog = 0
    /\ open_conns = 0
    /\ launcher = "server"
    /\ wd_last = "none"
    /\ other_open = FALSE
    /\ relaunched = FALSE

\* the poller starts on a table of three items, with the checkpoint of an
\* earlier run or none, and with a disk that may hold earlier downloads
InitPoller ==
    /\ TransferIdle
    /\ server_progress = NoFile
    /\ WatchdogIdle
    /\ now = 0
    /\ ticks = 0
    /\ sync_progress \in {NoProgress, save_progress(Some(1), Some(<< 53 >>), None)}
    /\ db = Rows
    /\ localFS \in {[q \in {} |-> 0],
                    [q \in {Norm(ensure_local_path(PathDB))} |-> 0],
                    [q \in {Norm(ensure_local_path(PathDB))} |-> 1]}
    /\ ppc = "check"
    /\ last_created_time = None
    /\ last_task_id = None
    /\ df = << >>
    /\ row_idx = 0
    /\ path_idx = 0
    /\ has_successful_download = FALSE
    /\ row_requests = 0
    /\ complete = {}
    /\ failed = {}
    /\ attempted = {}
    /\ last_success = None

NextPoller ==
    \/ PCheck \/ PRestart \/ PLoad \/ PConnect \/ PFetch \/ PRow \/ PPath
    \/ PAfterPaths \/ PSave \/ PSleep \/ PFault \/ PTick

SpecPoller == InitPoller /\ [][NextPoller]_vars

\* the process is killed inside save_progress, after open(PROGRESS_FILE, 'w')
\* has emptied the file and before json.dump has written all of it; it is
\* started again
PKilledInSave ==
    /\ \/ ppc = "save"
       \/ ppc = "after_paths" /\ has_successful_download
    /\ sync_progress' = TornPollerFile
    /\ ppc' = "check"
    /\ ResetLocals
    /\ UNCHANGED << now, ticks, db, localFS, complete, pollHist, transferSide >>

NextPollerKill == NextPoller \/ PKilledInSave

\* the poller on a host where the process may be killed at any moment
SpecPollerKill == InitPoller /\ [][NextPollerKill]_vars

(***************************************************************************)
(* Properties of the poller                                                *)
(***************************************************************************)
\* the persisted cursor: (last_created_time, last_task_id)
Cursor(f) == << load_progress(f)[1], load_progress(f)[2] >>

\* cursor c is not after cursor d in (orderTime, id) order; no cursor is
\* before every cursor
CursorLeq(c, d) ==
    \/ c[1] = None
    \/ /\ d[1] # None
       /\ \/ c[1][1] < d[1][1]
          \/ c[1][1] = d[1][1] /\ ~StrLess(OrZero(d[2]), OrZero(c[2]))

\* run_once has processed every row of a batch
BatchDone == ppc = "sleep" /\ df # << >>

\* C5: when run_once has processed a batch, the persisted cursor is the
\* (orderTime, id) of the batch's last item and a fetch with that cursor
\* returns no item; and no step ever moves the persisted cursor to a smaller
\* (orderTime, id).
C5_CursorMonotonic ==
    /\ [](BatchDone =>
            /\ Cursor(sync_progress) = << Some(StrfTime(df[Len(df)].CREATED_TIME)),
                                          Some(df[Len(df)].TASK_ID) >>
            /\ fetch_new_rows(db, Cursor(sync_progress)[1], Cursor(sync_progress)[2])
                 = << >>)
    /\ [][CursorLeq(Cursor(sync_progress), Cursor(sync_progress'))]_vars

\* the three items (t1,"5"), (t1,"7"), (t2,"1") processed in one batch
C5_Witness ==
    /\ BatchDone
    /\ Len(df) = 3
    /\ Cursor(sync_progress) = << Some(2), Some(<< 49 >>) >>

\* C6: once a download_for_row has left every path of an item downloaded
\* (each destination file exists and is non-empty), a later download_for_row
\* for that item calls request_image zero times.
C6_IdempotentSkip ==
    (ppc \in {"path", "after_paths"} /\ df[row_idx].TASK_ID \in complete)
        => row_requests = 0

\* the second download_for_row of a fully downloaded item with two paths has
\* gone through all of its paths
C6_Witness ==
    /\ ppc = "after_paths"
    /\ df[row_idx].TASK_ID \in complete
    /\ Cardinality({k \in 1..Len(df[row_idx].paths) :
                        Strip(df[row_idx].paths[k]) # << >>}) > 1

(***************************************************************************)
(* The watchdog functions on their own: check_need_restart of server.py    *)
(* and of sync_pictures.py applied to a checkpoint file and a time         *)
(***************************************************************************)
\* the times tried: the start, and around both limits
WatchdogTimes ==
    {0} \cup {h * 3600 * TicksPerSecond + d :
                h \in {MAX_NO_DOWNLOAD_HOURS, MAX_NO_SEND_HOURS},
                d \in (0 - 2)..(TicksPerSecond + 1)}

\* the checkpoint files tried: none, no JSON, written at second 0 or 1, and
\* for the poller also a cursor without and with last_download_time
InitWatchdog ==
    /\ TransferIdle
    /\ PollerIdle
    /\ WatchdogIdle
    /\ ticks = 0
    /\ now \in WatchdogTimes
    /\ server_progress \in {NoFile, TornDaemonFile}
                              \cup {save_last_send_time(t * TicksPerSecond + d) :
                                       t \in 0..1, d \in 0..(TicksPerSecond - 1)}
    /\ sync_progress \in {NoProgress, TornPollerFile,
                          save_progress(Some(1), Some(<< 53 >>), None),
                          save_progress(Some(1), Some(<< 53 >>), Some(0))}
                            \cup {update_download_time(NoProgress, t * TicksPerSecond) :
                                     t \in 0..1}

\* server.py: check_need_restart()
WDaemonCheck ==
    /\ wd_daemon = None
    /\ wd_daemon' = Some(check_need_restart(server_progress, now))
    /\ UNCHANGED << envVars, clientVars, serverVars, pollVars, wd_poller, wd_update >>

\* sync_pictures.py: check_need_restart()
WPollerCheck ==
    /\ wd_poller = None
    /\ wd_poller' = Some(check_need_restart_poller(sync_progress, now))
    /\ UNCHANGED << envVars, clientVars, serverVars, pollVars, wd_daemon, wd_update >>

\* sync_pictures.py: update_download_time(), applied to the progress file
WUpdateDownloadTime ==
    /\ wd_update = None
    /\ wd_update' = Some(update_download_time(sync_progress, now))
    /\ UNCHANGED << envVars, clientVars, serverVars, pollVars, wd_daemon, wd_poller >>

NextWatchdog == WDaemonCheck \/ WPollerCheck \/ WUpdateDownloadTime

SpecWatchdog == InitWatchdog /\ [][NextWatchdog]_vars

\* C4: check_need_restart returns true if and only if the checkpoint holds a
\* lastActivityTime and now - lastActivityTime >= threshold; it returns false
\* below the threshold and whenever there is no checkpoint (daemon: 24 hours
\* since last_send_time, poller: 2 hours since last_download_time).
C4_WatchdogThreshold ==
    /\ wd_daemon # None =>
         (wd_daemon[1] <=>
            /\ server_progress.state = "json"
            /\ server_progress.last_send_time # None
            /\ now - server_progress.last_send_time[1] * TicksPerSecond
                 >= 24 * 3600 * TicksPerSecond)
    /\ wd_poller # None =>
         (wd_poller[1] <=>
            /\ sync_progress.state = "json"
            /\ sync_progress.last_download_time # None
            /\ now - sync_progress.last_download_time[1] * TicksPerSecond
                 >= 2 * 3600 * TicksPerSecond)

\* both functions applied at exactly the threshold
C4_Witness ==
    /\ wd_daemon = Some(TRUE)
    /\ now - server_progress.last_send_time[1] * TicksPerSecond
         = 24 * 3600 * TicksPerSecond
    /\ wd_poller = Some(FALSE)


\* the row is returned by a fetch with the cursor persisted in f
InFetch(r, f) == r \in db /\ WhereClause(r, Cursor(f)[1], Cursor(f)[2])

\* C12: an item for which a request_image has returned false, and whose
\* paths have not all been downloaded since, is among the rows the next
\* fetch returns.
C12_RetryNextTick ==
    [][(ppc = "fetch" /\ ppc' \in {"row", "sleep"})
          => \A id \in failed : \E k \in 1..Len(df') : df'[k].TASK_ID = id]_vars

\* C13: while the paths of an item are being gone through, the persisted
\* cursor is before the item, so a fetch after a crash returns the item again;
\* and an item leaves the rows a fetch returns only after all of its paths
\* have been gone through.
C13_CursorPerItem ==
    /\ [](ppc \in {"row", "path", "after_paths"} => InFetch(df[row_idx], sync_progress))
    /\ [][\A r \in db :
             (InFetch(r, sync_progress) /\ ~InFetch(r, sync_progress'))
                => r.TASK_ID \in attempted]_vars

\* item "5" is processed again from its first path after a crash that followed
\* the download of that path
C13_Witness ==
    /\ ppc = "path"
    /\ path_idx = 1
    /\ df[row_idx].TASK_ID = << 53 >>
    /\ << 53 >> \notin attempted
    /\ ExistsNonEmpty(ensure_local_path(PathXA))
    /\ row_requests = 0

\* C14: a checkpoint that holds a lastActivityTime (last_send_time,
\* last_download_time) holds one after every step, never an earlier one.
C14_ActivityTimeKept ==
    [][/\ load_progress(sync_progress)[3] # None
            => /\ load_progress(sync_progress')[3] # None
               /\ load_progress(sync_progress')[3][1] >= load_progress(sync_progress)[3][1]
       /\ load_last_send_time(server_progress) # None
            => /\ load_last_send_time(server_progress') # None
               /\ load_last_send_time(server_progress')[1]
                    >= load_last_send_time(server_progress)[1]
      ]_vars

\* C15: whenever a checkpoint file is read it holds a complete checkpoint,
\* the previous one or the new one: it is never empty or partly written.
C15_AtomicReplace ==
    /\ sync_progress.state \in {"absent", "json"}
    /\ server_progress.state \in {"absent", "json"}

\* C18: a watchdog check made when the last successful download was recorded
\* MAX_NO_DOWNLOAD_HOURS or more ago returns true: the poller restarts and
\* does not run the tick.
C18_StalePollerRestarts ==
    [][(/\ ppc = "check"
        /\ ppc' # "check"
        /\ last_success # None
        /\ HoursReached(now, StrpTime(last_success[1]), MAX_NO_DOWNLOAD_HOURS))
          => ppc' = "restart"]_vars

\* ---------------------------------------------------------------------------
\* C21: a peer that connects and closes before any byte of the path length is
\* read makes the daemon leave recv(4) for the close of the connection and
\* nothing else: no byte is sent, the path, the file name, the size and the
\* checkpoint keep their values, the files are not touched; the close takes
\* the connection away and the loop goes on at its head.
C21_EmptyReadClosesQuietly ==
    [][ /\ (spc = "recv_len" /\ ConnIn = << >> /\ spc' # spc)
           => /\ spc' = "close"
              /\ UNCHANGED << sentLog, s2c, srvFS, server_progress, path_length,
                              file_path, srv_file_name, srv_file_size, offset >>
        /\ (spc = "close" /\ spc' # spc)
           => /\ spc' = "check"
              /\ conn' = "none"
              /\ open_conns' = open_conns - 1
              /\ UNCHANGED << sentLog, s2c, srvFS, server_progress >> ]_vars

\* the daemon is about to close the connection of a peer that sent nothing
C21_Witness == spc = "close" /\ conn = "other" /\ ~other_open /\ open_conns = 1

\* ---------------------------------------------------------------------------
\* The daemon as a running process: whenever it has a step to take it takes
\* one.  Nothing is assumed of the client, of other peers, of the link or of
\* the clock's callers: a peer may stay silent for ever.
DaemonStep ==
    \/ SCheck \/ SRestart \/ SAccept \/ SRecvLen \/ SRecvPath \/ SCheckFile
    \/ SSentinelLen \/ SSentinelSize \/ SStat \/ SSendNameLen \/ SSendName
    \/ SSendSize \/ SStream \/ SSaveTime \/ SClose

SpecDaemonLive == Init /\ [][Next]_vars /\ WF_vars(DaemonStep)

\* the daemon process is inside start_server's loop
DaemonRunning == spc \notin {"restart", "exited", "off"}

\* C22: once the daemon's checkpoint is stale while the daemon runs, the
\* daemon eventually leaves its loop for the restart (or a completed send has
\* made the checkpoint fresh again), whatever the peers do or fail to do.
C22_StaleDaemonRestarts ==
    (DaemonRunning /\ check_need_restart(server_progress, now))
        ~> (spc \in {"restart", "exited"} \/ ~check_need_restart(server_progress, now))

\* ---------------------------------------------------------------------------
\* C23: a process started by a watchdog restart reaches s.accept() before it
\* restarts again: the daemon is never at the restart while it is a
\* relaunched process that has not yet arrived at accept.
C23_NoRestartLivelock == ~(spc = "restart" /\ relaunched)

\* ---------------------------------------------------------------------------
\* Another process changes the file being sent, between os.path.getsize and
\* the end of the read loop: it truncates the file, appends to it, or puts
\* other content in its place.  Once per behaviour.
FsChange ==
    /\ spc \in {"send_name_len", "send_name", "send_size", "stream"}
    /\ srvFS = ServerFiles
    /\ file_path \in DOMAIN srvFS
    /\ srvFS[file_path].kind = "file"
    /\ \E d \in {<< >>, srvFS[file_path].data \o << 15 >>, << 16 >>} :
          /\ d # srvFS[file_path].data
          /\ srvFS' = [srvFS EXCEPT ![file_path].data = d]
    /\ UNCHANGED << now, ticks, dest, linkUp, c2s, s2c, sentLog, reqLog, clientVars,
                    serverVars >>
    /\ UNCHANGED pollerSide

NextFsChange == Next \/ FsChange

SpecFsChange == Init /\ [][NextFsChange]_vars

\* C24: when send_image is about to record a successful send, the payload
\* bytes it wrote on the connection are as many as the size it announced:
\* the bytes sent are the three header fields and srv_file_size bytes more.
C24_PayloadMatchesAnnouncedSize ==
    spc = "save_time"
        => Len(sentLog) = 4 + Len(Encode(srv_file_name)) + 8 + srv_file_size

\* ---------------------------------------------------------------------------
\* C25: the steps of a poll tick up to the end of a tick without work (the
\* watchdog check, load_progress, the connection attempt, the fetch, and the
\* sleep that follows run_once's return) leave the whole checkpoint file as
\* it is: a tick that ends because there is no connection or because the
\* fetch is empty has taken no other step.
C25_IdleTickKeepsCheckpoint ==
    [][(ppc \in {"check", "load", "connect", "fetch", "sleep"})
          => (sync_progress' = sync_progress)]_vars

\* a tick has ended without a fetched row, on a checkpoint that holds a
\* cursor and a last_download_time
C25_Witness ==
    /\ ppc = "sleep"
    /\ df = << >>
    /\ Cursor(sync_progress)[1] # None
    /\ load_progress(sync_progress)[3] # None

\* ---------------------------------------------------------------------------
\* C26: the file update_download_time leaves holds the cursor
\* (last_created_time, last_task_id) that load_progress read from the file
\* before the call, and the current time as last_download_time: for no file,
\* for a file that is no JSON, and for a cursor with or without an earlier
\* last_download_time.
C26_UpdateKeepsCursor ==
    wd_update # None =>
        /\ Cursor(wd_update[1]) = Cursor(sync_progress)
        /\ load_progress(wd_update[1])[3] = Some(StrfTime(now))

\* update_download_time has replaced an earlier last_download_time in a file
\* that holds a cursor
C26_Witness ==
    /\ wd_update # None
    /\ Cursor(sync_progress)[1] # None
    /\ load_progress(sync_progress)[3] # None
    /\ load_progress(wd_update[1])[3] # load_progress(sync_progress)[3]
=============================================================================
